---------------------------- MODULE Spec2Model ----------------------------
(***************************************************************************)
(* Window configuration and decoration negotiation of the client toolkit   *)
(* (src/src/window/mod.rs).  The state is the content of WindowInner, the  *)
(* part of the Frame the Window reads back, the decoration object and the  *)
(* effects (Frame calls, server requests, application events) of the most  *)
(* recent operation or handler.                                            *)
(***************************************************************************)
EXTENDS Integers, Sequences, FiniteSets, TLC

(***************************************************************************)
(* Bounds.  u32 / i32 are modelled with Bits bits instead of 32: the casts *)
(* `as i32` of the source wrap at 2^(Bits-1) exactly as they do at 2^31.   *)
(***************************************************************************)
Bits == 4
MaxDim == 3
MaxBorder == 1

UMax == 2^Bits - 1
IMax == 2^(Bits - 1) - 1

Max(a, b) == IF a >= b THEN a ELSE b
Min(a, b) == IF a <= b THEN a ELSE b

\* Option<T>: None is the empty sequence, Some(x) the one-element sequence.
None == << >>
Some(x) == << x >>
IsSome(o) == o # None
Unwrap(o) == o[1]

\* `x as i32` for a u32 x.
AsI32(x) == IF x > IMax THEN x - 2^Bits ELSE x

MIN_WINDOW_SIZE == << 2, 1 >>

\* The six states that constrain the size of the surface.
Constrained ==
    {"Maximized", "Fullscreen", "TiledTop", "TiledRight", "TiledBottom", "TiledLeft"}

(***************************************************************************)
(* Inputs.                                                                 *)
(***************************************************************************)
\* Sizes an application passes (u32, u32): zero, small, larger, and one with
\* the top bit set.
SizeArgs == { <<0, 0>>, <<1, 1>>, <<MaxDim, MaxDim>>, <<UMax, 1>> }
\* Sizes the server suggests in a Configure event.
SuggestedSizes == { <<1, 1>>, <<MaxDim + 1, 2>>, <<UMax, 1>> }
\* The state lists of Configure events.
StateSets ==
    { {}, {"Activated"}, {"Activated", "Maximized"}, {"Fullscreen"},
      {"TiledTop", "TiledRight", "TiledBottom", "TiledLeft"} }
\* Border geometries of a Frame: (extra width, extra height).
Borders == { <<0, 0>>, <<MaxBorder, MaxBorder>> }
DecorationsArgs == {"ServerSide", "ClientSide", "FollowServer", "None"}
Modes == {"ServerSide", "ClientSide"}
\* The seats of the environment and what the environment reports about one.
AllSeats == {"seat0", "seat1"}
SeatDatas == [has_pointer : BOOLEAN, defunct : BOOLEAN]
\* Observations of one seat that are followed (enumeration included).
MaxObs == 3
\* env.get_all_seats() with the data of each seat: any seats, in any order.
SeatEnumerations ==
    { << >> }
    \cup { << [seat |-> s, data |-> d] >> : s \in AllSeats, d \in SeatDatas }
    \cup { << [seat |-> p[1], data |-> d], [seat |-> p[2], data |-> e] >> :
             p \in { q \in AllSeats \X AllSeats : q[1] # q[2] },
             d \in SeatDatas, e \in SeatDatas }

VARIABLES
    inner_some,     \* Window.inner holds Some(WindowInner)
    min_size,       \* WindowInner.min_size
    max_size,       \* WindowInner.max_size : Option
    current_size,   \* WindowInner.current_size
    old_size,       \* WindowInner.old_size : Option
    decorated,      \* WindowInner.decorated
    frame,          \* the Frame: [hidden, border]
    decoration_mgr, \* the decoration-manager global was available
    decoration,     \* the per-surface decoration object exists
    op,             \* the most recent operation or event, with its arguments
    effects,        \* what that operation did, in order
    panicked,       \* a RefCell borrow failed (BorrowMutError)
    last_constrained, \* history: the latest Configure carried a constrained state
    run_len,        \* history: length of the latest run of such Configures, capped at 2
    pre_run_size,   \* history: current_size before the first Configure of that run
    constructed,    \* init_with_decorations has installed the WindowInner
    seats,          \* the Vec of tracked seats owned by the seat listener
    seat_obs,       \* history: per seat, the seat data observed so far, in order
    seat_calls,     \* history: per seat, the Frame::new_seat / remove_seat calls
    no_event_global, \* a NoEventGlobal: [inner, name, destroyed]
    received,       \* history: the new_global call whose global the container took
    surface_data,   \* the SurfaceData of a wl_surface: [scale_factor, outputs]
    source          \* a WaylandSource inside process_events: [pc, ret]

seat_vars == << seats, seat_obs, seat_calls >>

\* The components beside the Window.
aux_vars == << no_event_global, received, surface_data, source >>

\* The state of the Window, without the record of the latest operation.
window_vars ==
    << inner_some, min_size, max_size, current_size, old_size, decorated, frame,
       decoration_mgr, decoration, panicked, last_constrained, run_len,
       pre_run_size, constructed, seat_vars >>

vars ==
    << inner_some, min_size, max_size, current_size, old_size, decorated, frame,
       decoration_mgr, decoration, op, effects, panicked, last_constrained,
       run_len, pre_run_size, constructed, seats, seat_obs, seat_calls,
       no_event_global, received, surface_data, source >>

\* NoEventGlobal::new.
NoEventGlobalNew == [inner |-> None, name |-> None, destroyed |-> FALSE]

\* The SurfaceData that create_surface attaches to a new surface.
SurfaceDataNew == [scale_factor |-> 1, outputs |-> << >>]

\* A WaylandSource that waits for the readiness of its socket.
SourceIdle == [pc |-> "idle", ret |-> "none"]

\* The components beside the Window, as constructed.
AuxInit ==
    /\ no_event_global = NoEventGlobalNew
    /\ received = None
    /\ surface_data = SurfaceDataNew
    /\ source = SourceIdle

(***************************************************************************)
(* Effects.                                                                *)
(***************************************************************************)
FrameCall(name, arg) == [kind |-> "frame", name |-> name, arg |-> << arg >>]
Request(name, arg) == [kind |-> "request", name |-> name, arg |-> << arg >>]
UserEvent(ev) == [kind |-> "event", name |-> ev.type, arg |-> << ev >>]

EventConfigure(new_size, states) ==
    [type |-> "Configure", new_size |-> new_size, states |-> states]
EventRefresh == [type |-> "Refresh"]
EventClose == [type |-> "Close"]

IsEvent(e) == e.kind = "event"
IsRequest(e) == e.kind = "request"
\* The events the application callback received, in order.
Delivered == SelectSeq(effects, IsEvent)
Requests == SelectSeq(effects, IsRequest)

(***************************************************************************)
(* The Frame.  Its border geometry is fixed per Frame and applies while    *)
(* the decorations are shown.                                              *)
(***************************************************************************)
\* No Frame exists: F::init has not been called, or it returned an error.
NoFrame == [none |-> TRUE]
EffBorder(f) == IF f.hidden THEN << 0, 0 >> ELSE f.border
subtract_borders(f, w, h) == << w - EffBorder(f)[1], h - EffBorder(f)[2] >>
add_borders(f, w, h) == << w + EffBorder(f)[1], h + EffBorder(f)[2] >>
location(f) == << 0, 0 >>
set_hidden(f, hidden) == [f EXCEPT !.hidden = hidden]

(***************************************************************************)
(* Construction: Window::init_with_decorations.                            *)
(***************************************************************************)
ConstructedFrame(f0, mgr) == IF ~mgr THEN set_hidden(f0, FALSE) ELSE f0

ConstructionEffects(f0, mgr, initial_dims) ==
    LET f == ConstructedFrame(f0, mgr)
        m == add_borders(f, AsI32(MIN_WINDOW_SIZE[1]), AsI32(MIN_WINDOW_SIZE[2]))
        g == add_borders(f, AsI32(initial_dims[1]), AsI32(initial_dims[2]))
    IN  (IF ~mgr THEN << FrameCall("set_hidden", FALSE) >> ELSE << >>)
        \o << FrameCall("resize", initial_dims),
              Request("set_min_size", Some(m)),
              Request("set_geometry", << location(f), g >>) >>

InitialCurrentSize(initial_dims) == initial_dims

\* The initial seat setup: the seats of the enumeration that have a pointer
\* and are not defunct are pushed, in order, and handed to Frame::new_seat.
Qualifies(d) == d.has_pointer /\ ~d.defunct
QualifyingEntry(e) == Qualifies(e.data)
InitialSeats(enum) ==
    LET q == SelectSeq(enum, QualifyingEntry)
    IN  [i \in 1 .. Len(q) |-> q[i].seat]
EnumerationEffects(enum) ==
    LET v == InitialSeats(enum)
    IN  [i \in 1 .. Len(v) |-> FrameCall("new_seat", v[i])]
Contains(v, s) == \E i \in 1 .. Len(v) : v[i] = s
EnumeratedData(enum, s) ==
    IF \E i \in 1 .. Len(enum) : enum[i].seat = s
    THEN << (CHOOSE e \in { enum[i] : i \in 1 .. Len(enum) } : e.seat = s).data >>
    ELSE << >>
InitialObs(enum) == [s \in AllSeats |-> EnumeratedData(enum, s)]
InitialCalls(enum) ==
    [s \in AllSeats |->
        IF Contains(InitialSeats(enum), s) THEN << "new_seat" >> ELSE << >>]

\* The decoration object exists iff the manager global is there and the shell
\* surface has an xdg toplevel (get_xdg() is Some).
HasDecoration(mgr, xdg) == mgr /\ xdg

\* The state after create_window succeeded.  hidden0 is the visibility the
\* Frame chose in Frame::init; xdg tells whether the shell surface has an xdg
\* toplevel, without which no decoration object is made.
Init ==
    \E initial_dims \in SizeArgs, border \in Borders, hidden0 \in BOOLEAN,
       mgr \in BOOLEAN, xdg \in BOOLEAN, enum \in SeatEnumerations :
        LET f0 == [hidden |-> hidden0, border |-> border] IN
        /\ constructed = TRUE
        /\ seats = InitialSeats(enum)
        /\ seat_obs = InitialObs(enum)
        /\ seat_calls = InitialCalls(enum)
        /\ AuxInit
        /\ inner_some = TRUE
        /\ min_size = MIN_WINDOW_SIZE
        /\ max_size = None
        /\ current_size = InitialCurrentSize(initial_dims)
        /\ old_size = None
        /\ decorated = TRUE
        /\ frame = ConstructedFrame(f0, mgr)
        /\ decoration_mgr = mgr
        /\ decoration = HasDecoration(mgr, xdg)
        /\ op = [name |-> "create_window", arg |-> << initial_dims >>]
        /\ effects = ConstructionEffects(f0, mgr, initial_dims) \o EnumerationEffects(enum)
        /\ panicked = FALSE
        /\ last_constrained = FALSE
        /\ run_len = 0
        /\ pre_run_size = None


(***************************************************************************)
(* The application callback (user_impl).  A callback either only records   *)
(* the event, or re-enters one operation of the Window when it receives an *)
(* event of type cb.on.  Every caller of user_impl holds the mutable       *)
(* borrow of `inner`; the Configure arm also holds the one of the Frame.   *)
(***************************************************************************)
ReentrantOps ==
    {"resize", "refresh", "set_min_size", "set_max_size", "set_resizable",
     "set_title", "set_decorate"}
EventTypes == {"Configure", "Refresh", "Close"}
NoReentry == [on |-> "Close", name |-> "none"]
Callbacks ==
    {NoReentry} \cup [on : EventTypes, name : ReentrantOps]

\* What a re-entered operation does up to and including its first failing
\* borrow_mut(), or all it does when no borrow fails (the re-entered calls are
\* resize(1,1), refresh(), set_min_size(None), set_max_size(None),
\* set_resizable(false), set_title(""), set_decorate(None)).
BorrowFails(name, frame_borrowed) ==
    \/ name \in {"resize", "set_min_size", "set_max_size", "set_resizable",
                 "set_decorate"}
    \/ name \in {"refresh", "set_title"} /\ frame_borrowed

ReentryEffects(name, f, frame_borrowed) ==
    CASE name = "refresh" ->
            IF frame_borrowed THEN << >> ELSE << FrameCall("redraw", << >>) >>
      [] name = "set_title" ->
            IF frame_borrowed THEN << >>
            ELSE << FrameCall("set_title", ""), Request("set_title", "") >>
      [] name = "set_min_size" ->
            IF frame_borrowed THEN << >>
            ELSE << Request("set_min_size",
                       Some(add_borders(f, AsI32(MIN_WINDOW_SIZE[1]),
                                           AsI32(MIN_WINDOW_SIZE[2])))) >>
      [] name = "set_max_size" -> << Request("set_max_size", None) >>
      [] name = "set_resizable" ->
            IF frame_borrowed THEN << >>
            ELSE << FrameCall("set_resizable", FALSE) >>
      [] OTHER -> << >>

Panic(name) == [kind |-> "panic", name |-> name, arg |-> << >>]

\* Deliver the events evs, in order, to the callback cb: [eff, panic].
RECURSIVE Deliver(_, _, _, _)
Deliver(evs, cb, f, frame_borrowed) ==
    IF evs = << >> THEN [eff |-> << >>, panic |-> FALSE]
    ELSE
        LET e == Head(evs)
            reenters == cb.name # "none" /\ cb.on = e.type
            fails == reenters /\ BorrowFails(cb.name, frame_borrowed)
            here == << UserEvent(e) >>
                    \o (IF reenters THEN ReentryEffects(cb.name, f, frame_borrowed)
                        ELSE << >>)
                    \o (IF fails THEN << Panic(cb.name) >> ELSE << >>)
        IN  IF fails THEN [eff |-> here, panic |-> TRUE]
            ELSE LET rest == Deliver(Tail(evs), cb, f, frame_borrowed)
                 IN  [eff |-> here \o rest.eff, panic |-> rest.panic]

(***************************************************************************)
(* The shell-surface event closure: Configure.                             *)
(***************************************************************************)
\* Mutant: the clamp forgets the upper bound.
ClampSizeNoMax(f, minS, maxS, s) ==
    LET sb == subtract_borders(f, AsI32(s[1]), AsI32(s[2]))
    IN  << Max(Max(sb[1], AsI32(minS[1])), 1), Max(Max(sb[2], AsI32(minS[2])), 1) >>

\* Mutant: the suggestion is taken as a content size.
ClampSizeNoBorders(f, minS, maxS, s) ==
    LET w1 == Max(AsI32(s[1]), AsI32(minS[1]))
        h1 == Max(AsI32(s[2]), AsI32(minS[2]))
        w2 == IF IsSome(maxS) THEN Min(w1, AsI32(Unwrap(maxS)[1])) ELSE w1
        h2 == IF IsSome(maxS) THEN Min(h1, AsI32(Unwrap(maxS)[2])) ELSE h1
    IN  << Max(w2, 1), Max(h2, 1) >>

\* The clamp of a suggested size s (u32, u32) to a content size.
ClampSize(f, minS, maxS, s) ==
    LET sb == subtract_borders(f, AsI32(s[1]), AsI32(s[2]))
        w1 == Max(sb[1], AsI32(minS[1]))
        h1 == Max(sb[2], AsI32(minS[2]))
        w2 == IF IsSome(maxS) THEN Min(w1, AsI32(Unwrap(maxS)[1])) ELSE w1
        h2 == IF IsSome(maxS) THEN Min(h1, AsI32(Unwrap(maxS)[2])) ELSE h1
    IN  << Max(w2, 1), Max(h2, 1) >>

should_stash_size(states) == states \cap Constrained # {}

\* Mutant: every constrained Configure stashes again.
StashOldSizeAlways(stash, old, current) ==
    IF stash THEN Some(current) ELSE None

\* Mutant: an unconstrained Configure leaves the stash in place.
StashOldSizeKept(stash, old, current) ==
    IF stash THEN (IF old = None THEN Some(current) ELSE old) ELSE old

\* Mutant: a constrained Configure on a stashed size drops the stash.
StashOldSizeToggle(stash, old, current) ==
    IF stash THEN (IF old = None THEN Some(current) ELSE None) ELSE None

\* old_size after the stash/restore step.
StashOldSize(stash, old, current) ==
    IF stash THEN (IF old = None THEN Some(current) ELSE old) ELSE None

\* new_size after the stash/restore step (clamped is the clamped suggestion).
StashNewSize(stash, old, clamped) ==
    IF stash THEN clamped
    ELSE IF clamped = None THEN old ELSE clamped

\* Mutant: the refresh is asked for after the Configure event.
ConfigureEventsRefreshLast(need_refresh, new_size, states) ==
    << EventConfigure(new_size, states) >>
    \o (IF need_refresh THEN << EventRefresh >> ELSE << >>)

\* The events the handler hands to the application, in order.
ConfigureEvents(need_refresh, new_size, states) ==
    (IF need_refresh THEN << EventRefresh >> ELSE << >>)
    \o << EventConfigure(new_size, states) >>

\* Mutant: the handler also resizes the Frame to the suggested size.
ConfigureFrameCallsResize(states, new_size) ==
    << FrameCall("set_states", states) >>
    \o (IF IsSome(new_size) THEN << FrameCall("resize", Unwrap(new_size)) >> ELSE << >>)

\* The calls the Configure arm makes on the Frame: set_states only.
ConfigureFrameCalls(states, new_size) == << FrameCall("set_states", states) >>

Configure(states, new_size, need_refresh, cb) ==
    /\ ~panicked /\ frame # NoFrame
    /\ op' = [name |-> "Configure", states |-> states, new_size |-> new_size,
              need_refresh |-> need_refresh, cb |-> cb]
    /\ IF ~inner_some
       THEN /\ effects' = << >>
            /\ UNCHANGED << inner_some, min_size, max_size, current_size, old_size,
                            decorated, frame, decoration_mgr, decoration, panicked,
                            last_constrained, run_len, pre_run_size, constructed,
                            seat_vars,
                    aux_vars >>
       ELSE
        LET clamped == IF IsSome(new_size)
                       THEN Some(ClampSize(frame, min_size, max_size, Unwrap(new_size)))
                       ELSE None
            stash == should_stash_size(states)
            out == StashNewSize(stash, old_size, clamped)
            d == Deliver(ConfigureEvents(need_refresh, out, states), cb, frame, TRUE)
        IN  /\ old_size' = StashOldSize(stash, old_size, current_size)
            /\ effects' = ConfigureFrameCalls(states, out) \o d.eff
            /\ panicked' = d.panic
            /\ last_constrained' = stash
            /\ run_len' = IF stash
                          THEN (IF last_constrained THEN Min(run_len + 1, 2) ELSE 1)
                          ELSE (IF last_constrained THEN run_len ELSE 0)
            /\ pre_run_size' = IF stash
                               THEN (IF last_constrained THEN pre_run_size
                                     ELSE Some(current_size))
                               ELSE (IF last_constrained THEN pre_run_size ELSE None)
            /\ UNCHANGED << inner_some, min_size, max_size, current_size, decorated,
                            frame, decoration_mgr, decoration, constructed,
                            seat_vars,
                    aux_vars >>

\* Mutant: the Close event is handed over twice.
CloseEventsTwice == << EventClose, EventClose >>

\* What the Close arm hands to the application.
CloseEvents == << EventClose >>

\* The shell-surface event closure: Close.
Close(cb) ==
    /\ ~panicked /\ frame # NoFrame
    /\ op' = [name |-> "Close", cb |-> cb]
    /\ LET d == IF inner_some THEN Deliver(CloseEvents, cb, frame, FALSE)
                ELSE [eff |-> << >>, panic |-> FALSE]
       IN  /\ effects' = d.eff
           /\ panicked' = d.panic
    /\ UNCHANGED << inner_some, min_size, max_size, current_size, old_size, decorated,
                    frame, decoration_mgr, decoration, last_constrained, run_len,
                    pre_run_size, constructed, seat_vars,
                    aux_vars >>


(***************************************************************************)
(* The frame-request closure handed to Frame::init.                        *)
(***************************************************************************)
Seats == {"seat0"}
MaxSerial == 2
Serials == 1 .. MaxSerial
FrameRequests ==
    [type : {"Minimize", "Maximize", "UnMaximize", "Close", "Refresh"}]
    \cup [type : {"Move"}, seat : Seats]
    \cup [type : {"Resize"}, seat : Seats, edges : {"Top", "BottomRight"}]
    \cup [type : {"ShowMenu"}, seat : Seats, x : {0}, y : {1}]

\* Mutant: Maximize and UnMaximize are mixed up.
ForwardFrameRequestSwapped(req, serial) ==
    CASE req.type = "Minimize" -> Request("set_minimized", << >>)
      [] req.type = "Maximize" -> Request("unset_maximized", << >>)
      [] req.type = "UnMaximize" -> Request("set_maximized", << >>)
      [] req.type = "Move" -> Request("move_", << req.seat, serial >>)
      [] req.type = "Resize" -> Request("resize", << req.seat, serial, req.edges >>)
      [] req.type = "ShowMenu" ->
            Request("show_window_menu", << req.seat, serial, req.x, req.y >>)

ForwardFrameRequest(req, serial) ==
    CASE req.type = "Minimize" -> Request("set_minimized", << >>)
      [] req.type = "Maximize" -> Request("set_maximized", << >>)
      [] req.type = "UnMaximize" -> Request("unset_maximized", << >>)
      [] req.type = "Move" -> Request("move_", << req.seat, serial >>)
      [] req.type = "Resize" -> Request("resize", << req.seat, serial, req.edges >>)
      [] req.type = "ShowMenu" ->
            Request("show_window_menu", << req.seat, serial, req.x, req.y >>)

\* Mutant: the closure acts although `inner` is None.
HandleFrameRequestUnguarded(has_inner, req, serial, cb, f) ==
    IF req.type = "Close" THEN Deliver(<< EventClose >>, cb, f, FALSE)
    ELSE IF req.type = "Refresh" THEN Deliver(<< EventRefresh >>, cb, f, FALSE)
    ELSE [eff |-> << ForwardFrameRequest(req, serial) >>, panic |-> FALSE]

\* The body of the closure: [eff, panic].
HandleFrameRequest(has_inner, req, serial, cb, f) ==
    IF ~has_inner THEN [eff |-> << >>, panic |-> FALSE]
    ELSE IF req.type = "Close" THEN Deliver(<< EventClose >>, cb, f, FALSE)
    ELSE IF req.type = "Refresh" THEN Deliver(<< EventRefresh >>, cb, f, FALSE)
    ELSE [eff |-> << ForwardFrameRequest(req, serial) >>, panic |-> FALSE]

FrameRequest(req, serial, cb) ==
    /\ ~panicked /\ frame # NoFrame
    /\ op' = [name |-> "FrameRequest", req |-> req, serial |-> serial, cb |-> cb]
    /\ LET d == HandleFrameRequest(inner_some, req, serial, cb, frame)
       IN  /\ effects' = d.eff
           /\ panicked' = d.panic
    /\ UNCHANGED << inner_some, min_size, max_size, current_size, old_size, decorated,
                    frame, decoration_mgr, decoration, last_constrained, run_len,
                    pre_run_size, constructed, seat_vars,
                    aux_vars >>

(***************************************************************************)
(* Operations of the Window.  They need the Window, so inner is Some.      *)
(***************************************************************************)
\* Mutant: the size is taken as it comes.
ResizeNoClamp(w, h) == << w, h >>

ResizeClamp(w, h) == << Max(w, 1), Max(h, 1) >>

Resize(w, h) ==
    /\ ~panicked /\ inner_some
    /\ LET c == ResizeClamp(w, h) IN
        /\ current_size' = c
        /\ effects' =
             << FrameCall("resize", c),
                Request("set_geometry",
                        << location(frame), add_borders(frame, AsI32(c[1]), AsI32(c[2])) >>) >>
    /\ op' = [name |-> "resize", arg |-> << w, h >>]
    /\ UNCHANGED << inner_some, min_size, max_size, old_size, decorated, frame,
                    decoration_mgr, decoration, panicked, last_constrained, run_len,
                    pre_run_size, constructed, seat_vars,
                    aux_vars >>

Refresh ==
    /\ ~panicked /\ inner_some
    /\ effects' = << FrameCall("redraw", << >>) >>
    /\ op' = [name |-> "refresh"]
    /\ UNCHANGED << inner_some, min_size, max_size, current_size, old_size, decorated,
                    frame, decoration_mgr, decoration, panicked, last_constrained,
                    run_len, pre_run_size, constructed, seat_vars,
                    aux_vars >>

\* Mutant: "no minimum" is stored as the size 0x0.
StoredMinSizeZero(size) == IF IsSome(size) THEN Unwrap(size) ELSE << 0, 0 >>

StoredMinSize(size) == IF IsSome(size) THEN Unwrap(size) ELSE MIN_WINDOW_SIZE

SetMinSize(size) ==
    /\ ~panicked /\ inner_some
    /\ LET s == StoredMinSize(size) IN
        /\ effects' =
             << Request("set_min_size", Some(add_borders(frame, AsI32(s[1]), AsI32(s[2])))) >>
        /\ min_size' = s
    /\ op' = [name |-> "set_min_size", arg |-> size]
    /\ UNCHANGED << inner_some, max_size, current_size, old_size, decorated, frame,
                    decoration_mgr, decoration, panicked, last_constrained, run_len,
                    pre_run_size, constructed, seat_vars,
                    aux_vars >>

\* Mutant: "no maximum" is stored as the size 0x0.
StoredMaxSizeZero(size) == IF IsSome(size) THEN size ELSE Some(<< 0, 0 >>)

StoredMaxSize(size) == size

SetMaxSize(size) ==
    /\ ~panicked /\ inner_some
    /\ effects' =
         << Request("set_max_size",
                    IF IsSome(size)
                    THEN Some(add_borders(frame, AsI32(Unwrap(size)[1]),
                                                 AsI32(Unwrap(size)[2])))
                    ELSE None) >>
    /\ max_size' = StoredMaxSize(size)
    /\ op' = [name |-> "set_max_size", arg |-> size]
    /\ UNCHANGED << inner_some, min_size, current_size, old_size, decorated, frame,
                    decoration_mgr, decoration, panicked, last_constrained, run_len,
                    pre_run_size, constructed, seat_vars,
                    aux_vars >>

(***************************************************************************)
(* The operations that only forward to the ShellSurface.                   *)
(***************************************************************************)
WindowCalls ==
    [name : {"set_maximized", "unset_maximized", "set_minimized", "unset_fullscreen"}]
    \cup [name : {"set_fullscreen"}, output : {None, Some("output0")}]
    \cup [name : {"set_app_id"}, app_id : {"app"}]
    \cup [name : {"start_interactive_move"}, seat : Seats, serial : Serials]

\* Mutant: leaving fullscreen asks for fullscreen.
ShellRequestOfStuck(call) ==
    CASE call.name = "set_fullscreen" -> Request("set_fullscreen", call.output)
      [] call.name = "unset_fullscreen" -> Request("set_fullscreen", None)
      [] call.name = "set_app_id" -> Request("set_app_id", call.app_id)
      [] call.name = "start_interactive_move" ->
            Request("move_", << call.seat, call.serial >>)
      [] OTHER -> Request(call.name, << >>)

\* The ShellSurface request each of them makes.
ShellRequestOf(call) ==
    CASE call.name = "set_fullscreen" -> Request("set_fullscreen", call.output)
      [] call.name = "set_app_id" -> Request("set_app_id", call.app_id)
      [] call.name = "start_interactive_move" ->
            Request("move_", << call.seat, call.serial >>)
      [] OTHER -> Request(call.name, << >>)

Forward(call) ==
    /\ ~panicked /\ inner_some
    /\ effects' = << ShellRequestOf(call) >>
    /\ op' = [name |-> call.name, call |-> call]
    /\ UNCHANGED << inner_some, min_size, max_size, current_size, old_size, decorated,
                    frame, decoration_mgr, decoration, panicked, last_constrained,
                    run_len, pre_run_size, constructed, seat_vars,
                    aux_vars >>

(***************************************************************************)
(* set_title.  A String is its sequence of UTF-8 bytes: the first byte of  *)
(* a character is written as the number of bytes of the character, a       *)
(* continuation byte as 0.  The limit of 1024 bytes is scaled down to      *)
(* MaxTitleBytes.                                                         *)
(***************************************************************************)
MaxTitleBytes == 4
MaxTitleChars == 3
Utf8Widths == 1 .. 4

\* The bytes of one character of the given width.
Utf8Char(width) == [i \in 1 .. width |-> IF i = 1 THEN width ELSE 0]

RECURSIVE Utf8String(_)
Utf8String(widths) ==
    IF widths = << >> THEN << >>
    ELSE Utf8Char(Head(widths)) \o Utf8String(Tail(widths))

Titles ==
    { Utf8String(ws) :
        ws \in UNION { [1 .. n -> Utf8Widths] : n \in 0 .. MaxTitleChars } }

\* str::is_char_boundary
is_char_boundary(title, index) ==
    \/ index = 0
    \/ index = Len(title)
    \/ index < Len(title) /\ title[index + 1] # 0

\* Mutant: the title is cut at the limit, wherever that is.
TruncatedLenAtLimit(title, new_len) == new_len

\* The loop `while !title.is_char_boundary(new_len) { new_len -= 1 }`.
RECURSIVE TruncatedLen(_, _)
TruncatedLen(title, new_len) ==
    IF is_char_boundary(title, new_len) THEN new_len
    ELSE TruncatedLen(title, new_len - 1)

TruncatedTitle(title) ==
    IF Len(title) > MaxTitleBytes
    THEN SubSeq(title, 1, TruncatedLen(title, MaxTitleBytes))
    ELSE title

SetTitle(title) ==
    /\ ~panicked /\ inner_some
    /\ LET t == TruncatedTitle(title) IN
        effects' = << FrameCall("set_title", t), Request("set_title", t) >>
    /\ op' = [name |-> "set_title", arg |-> title]
    /\ UNCHANGED << inner_some, min_size, max_size, current_size, old_size, decorated,
                    frame, decoration_mgr, decoration, panicked, last_constrained,
                    run_len, pre_run_size, constructed, seat_vars,
                    aux_vars >>

\* Mutant: re-enabling sends the locked bounds again.
ResizableBoundsLocked(resizable, f, minS, maxS, cur) ==
    << Some(add_borders(f, AsI32(cur[1]), AsI32(cur[2]))),
       Some(add_borders(f, AsI32(cur[1]), AsI32(cur[2]))) >>

\* The (min, max) sizes set_resizable sends to the ShellSurface.
ResizableBounds(resizable, f, minS, maxS, cur) ==
    IF resizable
    THEN << Some(add_borders(f, AsI32(minS[1]), AsI32(minS[2]))),
            IF IsSome(maxS)
            THEN Some(add_borders(f, AsI32(Unwrap(maxS)[1]), AsI32(Unwrap(maxS)[2])))
            ELSE None >>
    ELSE << Some(add_borders(f, AsI32(cur[1]), AsI32(cur[2]))),
            Some(add_borders(f, AsI32(cur[1]), AsI32(cur[2]))) >>

SetResizable(resizable) ==
    /\ ~panicked /\ inner_some
    /\ LET b == ResizableBounds(resizable, frame, min_size, max_size, current_size) IN
        effects' = << FrameCall("set_resizable", resizable),
                      Request("set_min_size", b[1]),
                      Request("set_max_size", b[2]) >>
    /\ op' = [name |-> "set_resizable", arg |-> resizable]
    /\ UNCHANGED << inner_some, min_size, max_size, current_size, old_size, decorated,
                    frame, decoration_mgr, decoration, panicked, last_constrained,
                    run_len, pre_run_size, constructed, seat_vars,
                    aux_vars >>

(***************************************************************************)
(* Decorations.                                                            *)
(***************************************************************************)
\* Mutant: the flag is raised by every set_decorate.
WantDecoratedAlways(decorate) == TRUE

WantDecorated(decorate) == decorate # "None"

\* Mutant: without decoration object the frame is always shown.
DecorateHiddenShown(has_decoration, decorate, hidden) ==
    IF has_decoration
    THEN CASE decorate = "ClientSide" -> FALSE
           [] decorate = "None" -> TRUE
           [] OTHER -> hidden
    ELSE FALSE

\* Mutant: asking for server-side decorations hides the frame at once.
DecorateHiddenEager(has_decoration, decorate, hidden) ==
    IF has_decoration
    THEN CASE decorate = "ClientSide" -> FALSE
           [] decorate = "None" -> TRUE
           [] decorate = "ServerSide" -> TRUE
           [] OTHER -> hidden
    ELSE decorate = "None"

\* Frame.hidden after set_decorate: unchanged where the code does not call
\* set_hidden.
DecorateHidden(has_decoration, decorate, hidden) ==
    IF has_decoration
    THEN CASE decorate = "ClientSide" -> FALSE
           [] decorate = "None" -> TRUE
           [] OTHER -> hidden
    ELSE decorate = "None"

\* Mutant: set_decorate(ServerSide) asks the server even without the object.
DecorateEffectsAsk(has_decoration, decorate) ==
    IF decorate = "ServerSide"
    THEN << Request("decoration.set_mode", "ServerSide") >>
         \o (IF has_decoration THEN << >> ELSE << FrameCall("set_hidden", FALSE) >>)
    ELSE IF has_decoration
    THEN CASE decorate = "ClientSide" ->
                << Request("decoration.destroy", << >>), FrameCall("set_hidden", FALSE) >>
           [] decorate = "FollowServer" ->
                << Request("decoration.unset_mode", << >>) >>
           [] decorate = "None" ->
                << Request("decoration.set_mode", "ClientSide"),
                   FrameCall("set_hidden", TRUE) >>
    ELSE << FrameCall("set_hidden", decorate = "None") >>

\* Mutant: set_decorate(None) hides the frame without telling the server.
DecorateEffectsNoneSilent(has_decoration, decorate) ==
    IF has_decoration
    THEN CASE decorate = "ClientSide" ->
                << Request("decoration.destroy", << >>), FrameCall("set_hidden", FALSE) >>
           [] decorate = "ServerSide" ->
                << Request("decoration.set_mode", "ServerSide") >>
           [] decorate = "FollowServer" ->
                << Request("decoration.unset_mode", << >>) >>
           [] decorate = "None" ->
                << FrameCall("set_hidden", TRUE) >>
    ELSE << FrameCall("set_hidden", decorate = "None") >>

DecorateEffects(has_decoration, decorate) ==
    IF has_decoration
    THEN CASE decorate = "ClientSide" ->
                << Request("decoration.destroy", << >>), FrameCall("set_hidden", FALSE) >>
           [] decorate = "ServerSide" ->
                << Request("decoration.set_mode", "ServerSide") >>
           [] decorate = "FollowServer" ->
                << Request("decoration.unset_mode", << >>) >>
           [] decorate = "None" ->
                << Request("decoration.set_mode", "ClientSide"),
                   FrameCall("set_hidden", TRUE) >>
    ELSE << FrameCall("set_hidden", decorate = "None") >>

\* Mutant: the destroyed decoration object is kept in the Window.
DecorationAfterKept(has_decoration, decorate) == has_decoration

\* Window.decoration is Some after set_decorate: the ClientSide arm destroys
\* the object and stores None, no arm ever stores a new one.
DecorationAfter(has_decoration, decorate) ==
    has_decoration /\ decorate # "ClientSide"

SetDecorate(decorate) ==
    /\ ~panicked /\ inner_some
    /\ decorated' = WantDecorated(decorate)
    /\ decoration' = DecorationAfter(decoration, decorate)
    /\ frame' = set_hidden(frame, DecorateHidden(decoration, decorate, frame.hidden))
    /\ effects' = DecorateEffects(decoration, decorate)
    /\ op' = [name |-> "set_decorate", arg |-> decorate]
    /\ UNCHANGED << inner_some, min_size, max_size, current_size, old_size,
                    decoration_mgr, panicked, last_constrained, run_len, pre_run_size,
                    constructed, seat_vars,
                    aux_vars >>

\* Mutant: a ClientSide mode always shows the frame.
ModeHiddenByModeOnly(mode, has_inner, want) == mode = "ServerSide"

\* The handler of the decoration object's Configure{mode} event.
ModeHidden(mode, has_inner, want) ==
    IF mode = "ServerSide" THEN TRUE
    ELSE ~(IF has_inner THEN want ELSE FALSE)

DecorationEvent(mode) ==
    /\ ~panicked /\ decoration
    /\ frame' = set_hidden(frame, ModeHidden(mode, inner_some, decorated))
    /\ effects' = << FrameCall("set_hidden", frame'.hidden) >>
    /\ op' = [name |-> "decoration_event", arg |-> mode]
    /\ UNCHANGED << inner_some, min_size, max_size, current_size, old_size, decorated,
                    decoration_mgr, decoration, panicked, last_constrained, run_len,
                    pre_run_size, constructed, seat_vars,
                    aux_vars >>

\* impl Drop for Window: the WindowInner is taken out of the shared cell.
\* Its size fields no longer exist and are put back to fixed values; decorated
\* keeps the value of the last set_decorate call as history.  After the drop
\* no code path reads any of them (every read is guarded by inner_some).
Drop ==
    /\ ~panicked /\ inner_some
    /\ inner_some' = FALSE
    /\ min_size' = MIN_WINDOW_SIZE /\ max_size' = None
    /\ current_size' = << 1, 1 >> /\ old_size' = None
    /\ last_constrained' = FALSE /\ run_len' = 0 /\ pre_run_size' = None
    /\ effects' = << >>
    /\ op' = [name |-> "drop"]
    /\ UNCHANGED << decorated, frame, decoration_mgr, decoration, panicked,
                    constructed, seat_vars,
                    aux_vars >>

(***************************************************************************)
(* The seat listener.  It lives in the Window (_seat_listener) and owns    *)
(* the Vec of tracked seats.                                               *)
(***************************************************************************)
\* Mutant: a qualifying seat is registered whether it is known or not.
SeatListenerCallAgain(is_known, d) ==
    IF d.has_pointer /\ ~d.defunct THEN "new_seat"
    ELSE IF is_known /\ (~d.has_pointer \/ d.defunct) THEN "remove_seat"
    ELSE "none"

\* Mutant: a defunct seat that still has its pointer stays tracked.
SeatListenerCallDefunct(is_known, d) ==
    IF ~is_known /\ d.has_pointer /\ ~d.defunct THEN "new_seat"
    ELSE IF is_known /\ ~d.has_pointer THEN "remove_seat"
    ELSE "none"

\* The Frame call the listener makes for a notification, if any.
SeatListenerCall(is_known, d) ==
    IF ~is_known /\ d.has_pointer /\ ~d.defunct THEN "new_seat"
    ELSE IF is_known /\ (~d.has_pointer \/ d.defunct) THEN "remove_seat"
    ELSE "none"

\* seats.retain(|s| s != seat)
Retain(v, s) == LET Other(x) == x # s IN SelectSeq(v, Other)

SeatEvent(s, d) ==
    /\ ~panicked /\ inner_some
    /\ Len(seat_obs[s]) < MaxObs
    /\ LET c == SeatListenerCall(Contains(seats, s), d) IN
        /\ seats' = CASE c = "new_seat" -> Append(seats, s)
                      [] c = "remove_seat" -> Retain(seats, s)
                      [] OTHER -> seats
        /\ seat_calls' = IF c = "none" THEN seat_calls
                         ELSE [seat_calls EXCEPT ![s] = Append(@, c)]
        /\ effects' = IF c = "none" THEN << >> ELSE << FrameCall(c, s) >>
    /\ seat_obs' = [seat_obs EXCEPT ![s] = Append(@, d)]
    /\ op' = [name |-> "seat_event", seat |-> s, data |-> d]
    /\ UNCHANGED << inner_some, min_size, max_size, current_size, old_size, decorated,
                    frame, decoration_mgr, decoration, panicked, last_constrained,
                    run_len, pre_run_size, constructed, aux_vars >>

(***************************************************************************)
(* Construction in progress: Frame::init has returned the Frame, which     *)
(* holds the frame-request closure, and `inner` is still None.             *)
(***************************************************************************)
Constructing ==
    \E border \in Borders, hidden0 \in BOOLEAN, mgr \in BOOLEAN :
        /\ inner_some = FALSE
        /\ constructed = FALSE
        /\ min_size = MIN_WINDOW_SIZE
        /\ max_size = None
        /\ current_size = << 1, 1 >>
        /\ old_size = None
        /\ decorated = TRUE
        /\ frame = [hidden |-> hidden0, border |-> border]
        /\ decoration_mgr = mgr
        /\ decoration = FALSE
        /\ op = [name |-> "Frame::init", result |-> "Ok"]
        /\ effects = << >>
        /\ panicked = FALSE
        /\ last_constrained = FALSE
        /\ run_len = 0
        /\ pre_run_size = None
        /\ seats = << >>
        /\ seat_obs = [s \in AllSeats |-> << >>]
        /\ seat_calls = [s \in AllSeats |-> << >>]
        /\ AuxInit

\* The rest of init_with_decorations, up to the installation of the
\* WindowInner and the creation of the decoration object.
InstallInner(initial_dims, xdg, enum) ==
    /\ ~panicked /\ ~constructed /\ frame # NoFrame
    /\ inner_some' = TRUE
    /\ constructed' = TRUE
    /\ min_size' = MIN_WINDOW_SIZE
    /\ max_size' = None
    /\ current_size' = InitialCurrentSize(initial_dims)
    /\ old_size' = None
    /\ decorated' = TRUE
    /\ frame' = ConstructedFrame(frame, decoration_mgr)
    /\ decoration' = HasDecoration(decoration_mgr, xdg)
    /\ op' = [name |-> "create_window", arg |-> << initial_dims >>]
    /\ effects' = ConstructionEffects(frame, decoration_mgr, initial_dims)
                  \o EnumerationEffects(enum)
    /\ seats' = InitialSeats(enum)
    /\ seat_obs' = InitialObs(enum)
    /\ seat_calls' = InitialCalls(enum)
    /\ UNCHANGED << decoration_mgr, panicked, last_constrained, run_len, pre_run_size,
                    aux_vars >>

(***************************************************************************)
(* The start of create_window: the globals are taken from the environment  *)
(* and F::init is called.  Its error is returned with `?`.                 *)
(***************************************************************************)
Creating ==
    \E mgr \in BOOLEAN :
        /\ inner_some = FALSE
        /\ constructed = FALSE
        /\ min_size = MIN_WINDOW_SIZE
        /\ max_size = None
        /\ current_size = << 1, 1 >>
        /\ old_size = None
        /\ decorated = TRUE
        /\ frame = NoFrame
        /\ decoration_mgr = mgr
        /\ decoration = FALSE
        /\ op = [name |-> "start"]
        /\ effects = << >>
        /\ panicked = FALSE
        /\ last_constrained = FALSE
        /\ run_len = 0
        /\ pre_run_size = None
        /\ seats = << >>
        /\ seat_obs = [s \in AllSeats |-> << >>]
        /\ seat_calls = [s \in AllSeats |-> << >>]
        /\ AuxInit

\* Mutant: the shell surface is created before the Frame.
BeforeFrameInitShell == << Request("create_shell_surface", << >>) >>

\* What init_with_decorations has asked of the server when F::init returns.
BeforeFrameInit == << >>

\* F::init returns: Ok with a Frame of some geometry and visibility, or Err,
\* with which create_window returns.
FrameInit(ok, hidden0, border) ==
    /\ ~panicked /\ ~constructed /\ frame = NoFrame
    /\ frame' = IF ok THEN [hidden |-> hidden0, border |-> border] ELSE NoFrame
    /\ op' = [name |-> "Frame::init", result |-> IF ok THEN "Ok" ELSE "Err"]
    /\ effects' = BeforeFrameInit
    /\ UNCHANGED << inner_some, min_size, max_size, current_size, old_size, decorated,
                    decoration_mgr, decoration, panicked, last_constrained, run_len,
                    pre_run_size, constructed, seat_vars,
                    aux_vars >>

(***************************************************************************)
(* The wl_registry handler generated by the sctk! macro (src/src/lib.rs):  *)
(* a Global event for an interface that several fields request.            *)
(***************************************************************************)
MaxVersion == 3
MaxRequesters == 2
\* Range<u32> of a requester: start inclusive, end exclusive, not empty.
VersionRanges ==
    { r \in [start : 1 .. MaxVersion, end : 2 .. MaxVersion + 1] : r.start < r.end }
RequesterRanges == UNION { [1 .. n -> VersionRanges] : n \in 1 .. MaxRequesters }
Versions == 1 .. MaxVersion

\* The closure given to reduce.
IntersectRanges(a, b) ==
    [start |-> Max(a.start, b.start), end |-> Min(a.end, b.end)]

\* ranges.iter().cloned().reduce(..) on a non-empty array.
RECURSIVE ReduceRanges(_)
ReduceRanges(ranges) ==
    IF Len(ranges) = 1 THEN ranges[1]
    ELSE IntersectRanges(ReduceRanges(SubSeq(ranges, 1, Len(ranges) - 1)),
                         ranges[Len(ranges)])

\* .and_then(|range| if range.start > range.end { None } else { Some(range) })
AcceptableRange(ranges) ==
    LET r == ReduceRanges(ranges)
    IN  IF r.start > r.end THEN None ELSE Some(r)

\* The version handed to registry.bind.
BindVersion(version, acceptable_range) == Min(version, acceptable_range.end - 1)

RegistryGlobal(ranges, version) ==
    /\ ~panicked
    /\ op' = [name |-> "Global", ranges |-> ranges, version |-> version]
    /\ LET acceptable == AcceptableRange(ranges) IN
        IF acceptable = None
        THEN /\ panicked' = TRUE
             /\ effects' = << Panic("expect") >>
        ELSE /\ panicked' = FALSE
             /\ effects' =
                  IF Unwrap(acceptable).start <= version
                  THEN << Request("bind", BindVersion(version, Unwrap(acceptable))) >>
                       \o [i \in 1 .. Len(ranges) |->
                             [kind |-> "call", name |-> "new_global", arg |-> << i >>]]
                  ELSE << >>
    /\ UNCHANGED << inner_some, min_size, max_size, current_size, old_size, decorated,
                    frame, decoration_mgr, decoration, last_constrained, run_len,
                    pre_run_size, constructed, seat_vars,
                    aux_vars >>

(***************************************************************************)
(* NoEventGlobal (global.rs): the container of one bound global, driven by *)
(* the registry handler through RequestGlobal.                             *)
(***************************************************************************)
MaxName == 3
\* The numeric names the registry gives to globals.
GlobalNames == 1 .. MaxName
\* The proxies the registry handler binds and hands over.
Globals == {"g1", "g2", "g3"}

\* RequestGlobal::new_global of NoEventGlobal; the name is not looked at.
new_global(g, name, global) ==
    IF IsSome(g.inner) /\ ~g.destroyed
    THEN g
    ELSE [g EXCEPT !.inner = Some(global)]

\* RequestGlobal::remove_global of NoEventGlobal.
remove_global(g, name) ==
    IF g.name = Some(name)
    THEN [g EXCEPT !.inner = None, !.destroyed = TRUE]
    ELSE g

\* NoEventGlobal::destroyed and NoEventGlobal::get.
destroyed(g) == g.destroyed
get(g) == g.inner

\* The registry handler hands a bound global to the container.
NewGlobal(name, global) ==
    /\ no_event_global' = new_global(no_event_global, name, global)
    /\ received' = IF ~(IsSome(no_event_global.inner) /\ ~no_event_global.destroyed)
                   THEN Some([name |-> name, global |-> global])
                   ELSE received
    /\ op' = [name |-> "new_global", arg |-> << name, global >>]
    /\ effects' = << >>
    /\ UNCHANGED << window_vars, surface_data, source >>

\* The registry handler reports the removal of the global called name.
RemoveGlobal(name) ==
    /\ no_event_global' = remove_global(no_event_global, name)
    /\ op' = [name |-> "remove_global", arg |-> << name >>]
    /\ effects' = << >>
    /\ UNCHANGED << window_vars, received, surface_data, source >>

(***************************************************************************)
(* SurfaceData (compositor.rs): the outputs a surface is on and the scale  *)
(* factor kept for it, driven by the wl_surface Enter and Leave events.    *)
(***************************************************************************)
MaxScale == 3
MaxOutputs == 3
Outputs == {"o1", "o2"}
SurfaceEvents == {"Enter", "Leave"}
\* OutputData::scale_factor of each output at the time an event is handled.
\* Every wl_output of the queue carries an OutputData (the Dispatch bound of
\* the impl), so the filter_map drops none.
OutputScales == [Outputs -> 1 .. MaxScale]

\* The Vec of outputs after the match on the event: push, or retain.
OutputsAfter(event, outputs, output) ==
    IF event = "Enter"
    THEN Append(outputs, output)
    ELSE SelectSeq(outputs, LAMBDA o : o # output)

\* Iterator::reduce(i32::max) over the scale factors of the outputs.
RECURSIVE ReduceMax(_, _)
ReduceMax(outputs, scale_of) ==
    IF outputs = << >> THEN None
    ELSE LET rest == ReduceMax(SubSeq(outputs, 1, Len(outputs) - 1), scale_of)
             last == scale_of[outputs[Len(outputs)]]
         IN  IF IsSome(rest) THEN Some(Max(Unwrap(rest), last)) ELSE Some(last)

\* Mutant: a surface that is on no output falls back to the factor 1.
StoredFactorReset(current, largest_factor) ==
    IF IsSome(largest_factor) THEN Unwrap(largest_factor) ELSE 1

\* SurfaceData.scale_factor after the event.
StoredFactor(current, largest_factor) ==
    IF IsSome(largest_factor) THEN Unwrap(largest_factor) ELSE current

\* The calls of CompositorHandler::scale_factor_changed the event makes.
ScaleFactorChanged(current, largest_factor) ==
    IF IsSome(largest_factor) /\ current # Unwrap(largest_factor)
    THEN << [kind |-> "call", name |-> "scale_factor_changed",
             arg |-> << Unwrap(largest_factor) >>] >>
    ELSE << >>

\* DelegateDispatch<WlSurface>::event for Enter{output} and Leave{output}.
SurfaceEvent(event, output, scale_of) ==
    /\ event = "Enter" => Len(surface_data.outputs) < MaxOutputs
    /\ LET outputs == OutputsAfter(event, surface_data.outputs, output)
           current == surface_data.scale_factor
           largest_factor == ReduceMax(outputs, scale_of)
       IN  /\ surface_data' = [scale_factor |-> StoredFactor(current, largest_factor),
                               outputs |-> outputs]
           /\ effects' = ScaleFactorChanged(current, largest_factor)
    /\ op' = [name |-> "wl_surface", event |-> event, output |-> output,
              scale_of |-> scale_of]
    /\ UNCHANGED << window_vars, no_event_global, received, source >>

(***************************************************************************)
(* WaylandSource (event_loop.rs): process_events, one step per call it     *)
(* makes on the event queue.  `effects` logs the calls of the current run. *)
(***************************************************************************)
MaxRounds == 3
\* guard.read_events(): not called (prepare_read gave None), Ok, or an error
\* of kind WouldBlock or of another kind.
ReadResults == {"NoGuard", "Ok", "WouldBlock", "Other"}
\* callback((), queue): Ok(0), Ok(n) with n > 0, or Err.
DispatchResults == {"Ok0", "OkN", "Err"}
\* queue.display().flush().
FlushResults == {"Ok", "WouldBlock", "Other"}

QueueCall(name, result) == [kind |-> "call", name |-> name, arg |-> << result >>]
IsDispatch(e) == e.name = "dispatch_pending"
\* The turns of the loop begun so far.
Rounds(log) == Len(SelectSeq(log, IsDispatch))

\* Mutant: any error of read_events ends process_events.
ReadReturnsAnyError(result) == result \in {"WouldBlock", "Other"}

\* read_events failed with an error that is returned.
ReadReturns(result) == result = "Other"

\* Where the loop goes after the callback.
AfterDispatch(result) ==
    CASE result = "Ok0" -> "flush"
      [] result = "OkN" -> "read"
      [] OTHER -> "return"

\* What process_events returns after the flush.
FlushReturn(result) == IF result = "Other" THEN "Err" ELSE "Continue"

\* calloop reports the socket readable: the closure starts.
SocketReady ==
    /\ source.pc = "idle"
    /\ source' = [pc |-> "read", ret |-> "none"]
    /\ op' = [name |-> "process_events"]
    /\ effects' = << >>
    /\ UNCHANGED << window_vars, no_event_global, received, surface_data >>

\* Step 1 of the loop: prepare_read and read_events.
ReadEvents(result) ==
    /\ source.pc = "read"
    /\ effects' = IF result = "NoGuard" THEN effects
                  ELSE Append(effects, QueueCall("read_events", result))
    /\ source' = IF ReadReturns(result)
                 THEN [pc |-> "idle", ret |-> "Err"]
                 ELSE [source EXCEPT !.pc = "dispatch"]
    /\ UNCHANGED << window_vars, op, no_event_global, received, surface_data >>

\* Step 2 of the loop: the callback dispatches the pending events.
DispatchPending(result) ==
    /\ source.pc = "dispatch"
    /\ result = "OkN" => Rounds(effects) + 1 < MaxRounds
    /\ effects' = Append(effects, QueueCall("dispatch_pending", result))
    /\ source' = IF AfterDispatch(result) = "return"
                 THEN [pc |-> "idle", ret |-> "Err"]
                 ELSE [source EXCEPT !.pc = AfterDispatch(result)]
    /\ UNCHANGED << window_vars, op, no_event_global, received, surface_data >>

\* Step 3, after the loop: flush, and return.
Flush(result) ==
    /\ source.pc = "flush"
    /\ effects' = Append(effects, QueueCall("flush", result))
    /\ source' = [pc |-> "idle", ret |-> FlushReturn(result)]
    /\ UNCHANGED << window_vars, op, no_event_global, received, surface_data >>

(***************************************************************************)
(* Specifications.  In Next, SizeNext and DecorNext the application        *)
(* callback only records the events it receives, as the examples of the    *)
(* repository do; ReentryNext lets it call back into the Window.           *)
(***************************************************************************)
ConfigureInputs == {None} \cup { Some(s) : s \in SuggestedSizes }
SizeInputs == {None} \cup { Some(s) : s \in SizeArgs }

\* Every operation and event, interleaved freely.
Next ==
    \/ \E st \in StateSets, ns \in ConfigureInputs, nr \in BOOLEAN :
          Configure(st, ns, nr, NoReentry)
    \/ Close(NoReentry)
    \/ \E r \in FrameRequests, n \in Serials : FrameRequest(r, n, NoReentry)
    \/ \E s \in SizeArgs : Resize(s[1], s[2])
    \/ Refresh
    \/ \E s \in SizeInputs : SetMinSize(s)
    \/ \E s \in SizeInputs : SetMaxSize(s)
    \/ \E r \in BOOLEAN : SetResizable(r)
    \/ \E t \in Titles : SetTitle(t)
    \/ \E c \in WindowCalls : Forward(c)
    \/ \E d \in DecorationsArgs : SetDecorate(d)
    \/ \E m \in Modes : DecorationEvent(m)
    \/ \E s \in AllSeats, d \in SeatDatas : SeatEvent(s, d)
    \/ Drop
    \/ \E n \in GlobalNames, g \in Globals : NewGlobal(n, g)
    \/ \E n \in GlobalNames : RemoveGlobal(n)
    \/ \E ev \in SurfaceEvents, o \in Outputs, sc \in OutputScales : SurfaceEvent(ev, o, sc)
    \/ SocketReady
    \/ \E r \in ReadResults : ReadEvents(r)
    \/ \E r \in DispatchResults : DispatchPending(r)
    \/ \E r \in FlushResults : Flush(r)

Spec == Init /\ [][Next]_vars

\* The environment had no seat when the window was created.
NoSeats == \A s \in AllSeats : seat_obs[s] = << >>

\* Size negotiation: a window without decoration manager, whose Frame is
\* therefore shown and never asks for a refresh, under Configure events and
\* the size operations.
SizeInit == Init /\ ~decoration_mgr /\ NoSeats

SizeNext ==
    \/ \E st \in StateSets, ns \in ConfigureInputs :
          Configure(st, ns, FALSE, NoReentry)
    \/ \E s \in SizeArgs : Resize(s[1], s[2])
    \/ \E s \in SizeInputs : SetMinSize(s)
    \/ \E s \in SizeInputs : SetMaxSize(s)
    \/ \E r \in BOOLEAN : SetResizable(r)
    \/ Drop

SizeSpec == SizeInit /\ [][SizeNext]_vars

\* Event delivery: the three closures on a window whose size bounds are left
\* at their defaults; the environment has no seat, or the seat of the frame
\* requests with its pointer.
EventInit ==
    /\ Init /\ ~decoration_mgr
    /\ \A s \in AllSeats :
          seat_obs[s] = << >> \/ (s \in Seats /\ Qualifies(seat_obs[s][1]))

EventNext ==
    \/ \E st \in StateSets, ns \in ConfigureInputs, nr \in BOOLEAN :
          Configure(st, ns, nr, NoReentry)
    \/ Close(NoReentry)
    \/ \E r \in FrameRequests, n \in Serials : FrameRequest(r, n, NoReentry)
    \/ \E s \in SizeArgs : Resize(s[1], s[2])
    \/ Refresh
    \/ Drop

EventSpec == EventInit /\ [][EventNext]_vars

\* Decoration negotiation, for every combination of decoration manager and
\* xdg toplevel, on a window that is never resized.
DecorInit == Init /\ current_size = << 1, 1 >> /\ NoSeats

DecorNext ==
    \/ \E d \in DecorationsArgs : SetDecorate(d)
    \/ \E m \in Modes : DecorationEvent(m)
    \/ \E st \in {{}, {"Fullscreen"}} : Configure(st, None, FALSE, NoReentry)
    \/ Drop

DecorSpec == DecorInit /\ [][DecorNext]_vars

\* Re-entrancy: the application callback may call back into the Window.
ReentryInit == Init /\ current_size = << 1, 1 >> /\ ~decoration_mgr /\ NoSeats

ReentryNext ==
    \/ \E st \in {{}, {"Maximized"}}, ns \in {None, Some(<< 1, 1 >>)},
          nr \in BOOLEAN, cb \in Callbacks : Configure(st, ns, nr, cb)
    \/ \E cb \in Callbacks : Close(cb)
    \/ \E r \in [type : {"Close", "Refresh"}], cb \in Callbacks : FrameRequest(r, 1, cb)
    \/ Refresh

ReentrySpec == ReentryInit /\ [][ReentryNext]_vars

\* The whole Window: every operation and every event, each with few inputs.
WindowInit == Init /\ current_size = << 1, 1 >> /\ frame.border = << 0, 0 >> /\ NoSeats

WindowNext ==
    \/ \E d \in DecorationsArgs : SetDecorate(d)
    \/ \E m \in Modes : DecorationEvent(m)
    \/ \E st \in {{}, {"Fullscreen"}} : Configure(st, None, FALSE, NoReentry)
    \/ Close(NoReentry)
    \/ FrameRequest([type |-> "Maximize"], 1, NoReentry)
    \/ Resize(MaxDim, MaxDim)
    \/ Refresh
    \/ SetMinSize(None)
    \/ \E s \in {None, Some(<< MaxDim, MaxDim >>)} : SetMaxSize(s)
    \/ \E df \in BOOLEAN : SeatEvent("seat0", [has_pointer |-> TRUE, defunct |-> df])
    \/ \E c \in WindowCalls : Forward(c)
    \/ SetResizable(FALSE)
    \/ SetTitle(Utf8String(<< 1 >>))
    \/ Drop

WindowSpec == WindowInit /\ [][WindowNext]_vars

\* The scenario of a first Configure with a size, answered by resize and
\* refresh; ScenarioSize stands for 800x600.
ScenarioSize == << MaxDim + 1, 2 >>

ScenarioInit == Init /\ current_size = << 1, 1 >> /\ NoSeats

ScenarioNext ==
    \/ \E st \in {{}, {"Activated"}}, ns \in {None, Some(ScenarioSize)},
          nr \in BOOLEAN : Configure(st, ns, nr, NoReentry)
    \/ \E s \in {<< 1, 1 >>, ScenarioSize} : Resize(s[1], s[2])
    \/ Refresh
    \/ \E s \in {None, Some(<< MaxDim, MaxDim >>)} : SetMinSize(s)
    \/ Drop

ScenarioSpec == ScenarioInit /\ [][ScenarioNext]_vars

\* The registry: Global events, before any window is created.
RegistryNext ==
    \E ranges \in RequesterRanges, version \in Versions : RegistryGlobal(ranges, version)

RegistrySpec == Creating /\ [][RegistryNext]_vars

\* Titles: set_title on a window that is otherwise only refreshed.
TitleInit == Init /\ current_size = << 1, 1 >> /\ ~decoration_mgr /\ NoSeats

TitleNext ==
    \/ \E t \in Titles : SetTitle(t)
    \/ Refresh
    \/ Drop

TitleSpec == TitleInit /\ [][TitleNext]_vars

\* Seat tracking: the initial enumeration and the notifications of the seat
\* listener, on a window that is otherwise left alone.
SeatInit ==
    Init /\ current_size = << 1, 1 >> /\ ~decoration_mgr /\ frame.border = << 0, 0 >>

SeatNext ==
    \/ \E s \in AllSeats, d \in SeatDatas : SeatEvent(s, d)
    \/ Drop

SeatSpec == SeatInit /\ [][SeatNext]_vars

\* Construction: events that arrive before the WindowInner is installed, the
\* installation, and the same events afterwards.
ConstructNext ==
    \/ \E st \in {{}, {"Activated", "Maximized"}}, ns \in ConfigureInputs,
          nr \in BOOLEAN : Configure(st, ns, nr, NoReentry)
    \/ Close(NoReentry)
    \/ \E r \in FrameRequests, n \in Serials : FrameRequest(r, n, NoReentry)
    \/ \E d \in {<< 1, 1 >>, << MaxDim, MaxDim >>}, xdg \in BOOLEAN :
          InstallInner(d, xdg, << >>)

ConstructSpec == Constructing /\ [][ConstructNext]_vars

\* Creation from the call of create_window on, F::init failing or not.
CreateNext ==
    \/ \E ok \in BOOLEAN, hidden0 \in BOOLEAN, border \in Borders :
          FrameInit(ok, hidden0, border)
    \/ ConstructNext

CreateSpec == Creating /\ [][CreateNext]_vars


\* The container of a global under the calls of the registry handler.
GlobalNext ==
    \/ \E n \in GlobalNames, g \in Globals : NewGlobal(n, g)
    \/ \E n \in GlobalNames : RemoveGlobal(n)

GlobalSpec == Creating /\ [][GlobalNext]_vars

\* A surface that enters and leaves outputs whose scale factors vary.
SurfaceNext ==
    \E ev \in SurfaceEvents, o \in Outputs, sc \in OutputScales : SurfaceEvent(ev, o, sc)

SurfaceSpec == Creating /\ [][SurfaceNext]_vars

\* The event source under readiness notifications, with every outcome of the
\* calls it makes.
SourceNext ==
    \/ SocketReady
    \/ \E r \in ReadResults : ReadEvents(r)
    \/ \E r \in DispatchResults : DispatchPending(r)
    \/ \E r \in FlushResults : Flush(r)

SourceSpec == Creating /\ [][SourceNext]_vars

(***************************************************************************)
(* Properties.                                                             *)
(***************************************************************************)
Le(a, b) == a[1] <= b[1] /\ a[2] <= b[2]
\* The last event the application received from the latest handler.
LastDelivered == Delivered[Len(Delivered)].arg[1]
\* The latest step was a Configure event with these properties, handled by an
\* initialised window.
ConfigureHandled == inner_some /\ op.name = "Configure"
Ordered(mn, mx) == mx = None \/ Le(mn, Unwrap(mx))

C2_StashOnceRestore ==
    /\ (inner_some /\ last_constrained /\ run_len >= 2) => old_size = pre_run_size
    /\ (ConfigureHandled /\ ~should_stash_size(op.states) /\ op.new_size = None
            /\ run_len >= 2)
       => (IsSome(pre_run_size) /\ LastDelivered.new_size = pre_run_size)

\* Such a restore, after the application resized during the run.
C2_Witness ==
    /\ ConfigureHandled /\ ~should_stash_size(op.states) /\ op.new_size = None
    /\ run_len >= 2
    /\ IsSome(LastDelivered.new_size)
    /\ LastDelivered.new_size # Some(current_size)

\* C3: current_size.width >= 1 and current_size.height >= 1 in every
\* reachable state of a constructed Window.
C3_CurrentSizePositive ==
    inner_some => (current_size[1] >= 1 /\ current_size[2] >= 1)

\* C4 (as stated): if max_size is set then min_size <= max_size.
C4_MinLeMax_Original ==
    inner_some => Ordered(min_size, max_size)

\* C4 (amended): the order of the bounds is kept by every step except a
\* set_min_size / set_max_size call whose argument is not ordered with the
\* other stored bound; the two operations store what they are given.
C4_MinLeMaxKept ==
    [][ ( /\ inner_some' /\ Ordered(min_size, max_size)
          /\ ~(op'.name = "set_min_size"
                 /\ ~Ordered(IF IsSome(op'.arg) THEN Unwrap(op'.arg)
                             ELSE MIN_WINDOW_SIZE, max_size))
          /\ ~(op'.name = "set_max_size" /\ ~Ordered(min_size, op'.arg)) )
        => Ordered(min_size', max_size') ]_vars

\* Both bounds were set by the application, in order, max last.
C4_Witness ==
    /\ inner_some /\ op.name = "set_max_size" /\ IsSome(max_size)
    /\ min_size # MIN_WINDOW_SIZE
    /\ Le(min_size, Unwrap(max_size)) /\ min_size # Unwrap(max_size)

\* C5: old_size is Some only if the latest Configure carried a constrained
\* state; it is None initially and after every Configure that carries none.
C5_OldSizeOnlyWhileConstrained ==
    inner_some =>
        /\ IsSome(old_size) => last_constrained
        /\ (op.name = "Configure" /\ ~should_stash_size(op.states)) => old_size = None
        /\ op.name = "create_window" => old_size = None

\* A run of constrained Configures has ended and old_size is None again.
C5_Witness ==
    /\ ConfigureHandled /\ ~should_stash_size(op.states) /\ IsSome(op.new_size)
    /\ run_len >= 1 /\ old_size = None

\* C6: a Configure event gives the application exactly one Event::Configure
\* with the states of the event, preceded by exactly one Event::Refresh iff
\* Frame::set_states returned true.
C6_OneConfigureRefreshFirst ==
    ConfigureHandled =>
        /\ Len(Delivered) = (IF op.need_refresh THEN 2 ELSE 1)
        /\ LastDelivered.type = "Configure"
        /\ LastDelivered.states = op.states
        /\ op.need_refresh => Delivered[1].name = "Refresh"

\* A Configure with states whose Frame asked for a refresh.
C6_Witness ==
    /\ ConfigureHandled /\ op.need_refresh /\ op.states # {}
    /\ Len(Delivered) = 2

\* C7: no execution reaches a re-entrant-borrow failure when the application
\* callback re-enters a Window operation.
C7_NoBorrowFailure == ~panicked

\* C8 (as stated): without decoration manager Frame.hidden is always false.
C8_NeverHidden_Original ==
    ~decoration_mgr => ~frame.hidden

\* C8 (amended): without decoration manager Frame.hidden is false after
\* construction and equals !decorated ever after: only set_decorate(None)
\* hides the frame, every other set_decorate shows it.
C8_HiddenIffUndecorated ==
    ~decoration_mgr =>
        /\ frame.hidden = ~decorated
        /\ op.name = "create_window" => ~frame.hidden

\* set_decorate(None) has hidden the frame of a window without manager.
C8_Witness ==
    /\ ~decoration_mgr /\ op.name = "set_decorate" /\ op.arg = "None"
    /\ frame.hidden

\* C9: without decoration object set_decorate(None) hides the frame, the
\* other three modes show it, and no request goes to the server.
C9_DecorateWithoutObject ==
    [][ (op'.name = "set_decorate" /\ ~decoration)
        => /\ frame'.hidden = (op'.arg = "None")
           /\ SelectSeq(effects', IsRequest) = << >> ]_vars

\* set_decorate(ServerSide) after the object was destroyed.
C9_Witness ==
    /\ decoration_mgr /\ ~decoration /\ inner_some
    /\ op.name = "set_decorate" /\ op.arg = "ServerSide"
    /\ ~frame.hidden /\ Requests = << >>

\* C10: right after a decoration-mode event, ServerSide means hidden and
\* ClientSide means hidden = !decorated (the latest set_decorate was not None).
C10_ModeEventVisibility ==
    op.name = "decoration_event" =>
        /\ op.arg = "ServerSide" => frame.hidden
        /\ op.arg = "ClientSide" => frame.hidden = ~decorated

\* The same for a window that has not been dropped.
C10_LiveWindow ==
    (inner_some /\ op.name = "decoration_event") =>
        /\ op.arg = "ServerSide" => frame.hidden
        /\ op.arg = "ClientSide" => frame.hidden = ~decorated

\* C11: set_decorate(ClientSide) with a decoration object destroys it and
\* shows the frame; a window without decoration object never gets one again,
\* and every set_decorate on it takes the rows without decoration object.
C11_ClientSideDestroysForGood ==
    [][ /\ (op'.name = "set_decorate" /\ op'.arg = "ClientSide" /\ decoration)
           => /\ ~decoration'
              /\ ~frame'.hidden
              /\ SelectSeq(effects', IsRequest)
                    = << Request("decoration.destroy", << >>) >>
        /\ ~decoration => ~decoration'
        /\ (op'.name = "set_decorate" /\ ~decoration)
           => effects' = << FrameCall("set_hidden", op'.arg = "None") >> ]_vars

\* The object has just been destroyed on a frame that was hidden before.
C11_Witness ==
    /\ op.name = "set_decorate" /\ op.arg = "ClientSide"
    /\ decoration_mgr /\ ~decoration /\ ~frame.hidden
    /\ Requests = << Request("decoration.destroy", << >>) >>

\* C12: with a decoration object, set_decorate(ServerSide) does nothing but
\* request set_mode(ServerSide) and set_decorate(FollowServer) nothing but
\* request unset_mode; neither touches the Frame nor the object.
C12_ServerModesOnlyAsk ==
    [][ (op'.name = "set_decorate" /\ decoration
            /\ op'.arg \in {"ServerSide", "FollowServer"})
        => /\ effects' = << IF op'.arg = "ServerSide"
                             THEN Request("decoration.set_mode", "ServerSide")
                             ELSE Request("decoration.unset_mode", << >>) >>
           /\ frame' = frame
           /\ decoration' ]_vars

\* Server-side decorations were requested while the frame is still shown.
C12_Witness ==
    /\ op.name = "set_decorate" /\ op.arg = "ServerSide" /\ decoration
    /\ ~frame.hidden
    /\ effects = << Request("decoration.set_mode", "ServerSide") >>

\* C13: with a decoration object, set_decorate(None) requests
\* set_mode(ClientSide), hides the frame at once and keeps the object.
C13_NoneHidesKeepsObject ==
    [][ (op'.name = "set_decorate" /\ decoration /\ op'.arg = "None")
        => /\ SelectSeq(effects', IsRequest)
                 = << Request("decoration.set_mode", "ClientSide") >>
           /\ frame'.hidden
           /\ decoration' ]_vars

\* set_decorate(None) on a window with the object.
C13_Witness ==
    /\ op.name = "set_decorate" /\ op.arg = "None" /\ decoration
    /\ frame.hidden /\ ~decorated
    /\ Requests = << Request("decoration.set_mode", "ClientSide") >>

\* C14: decorated is true after construction, equals (m # None) after
\* set_decorate(m) with or without decoration object, and is left alone by
\* every other operation and event.
C14_DecoratedFollowsSetDecorate ==
    [][ /\ op.name = "create_window" => decorated
        /\ IF op'.name = "set_decorate"
           THEN decorated' = (op'.arg # "None")
           ELSE decorated' = decorated ]_vars

\* A mode event on a live window whose decorations were turned off.
C14_Witness ==
    /\ inner_some /\ op.name = "decoration_event" /\ op.arg = "ClientSide"
    /\ ~decorated

\* C15: a window constructed without decoration object, whether the manager
\* is absent or the shell surface has no xdg toplevel, has a shown frame.
C15_NoObjectShown ==
    (op.name = "create_window" /\ ~decoration) => ~frame.hidden

\* The latest observation of seat s had a pointer and was not defunct.
LastQualifies(s) ==
    seat_obs[s] # << >> /\ Qualifies(seat_obs[s][Len(seat_obs[s])])

\* C16: the tracked seats are exactly the seats whose most recent
\* observation, at the enumeration or in a notification, had a pointer and
\* was not defunct.
C16_TrackedIffQualifies ==
    inner_some => \A s \in AllSeats : Contains(seats, s) <=> LastQualifies(s)

\* A tracked seat went defunct with its pointer and was removed, while the
\* other seat is tracked.
C16_Witness ==
    /\ inner_some /\ op.name = "seat_event"
    /\ op.data.has_pointer /\ op.data.defunct
    /\ effects = << FrameCall("remove_seat", op.seat) >>
    /\ ~Contains(seats, op.seat)
    /\ \E t \in AllSeats \ {op.seat} : Contains(seats, t)

\* The Frame calls for every seat are new_seat, remove_seat, new_seat, ...
SeatCallsAlternate ==
    \A s \in AllSeats : \A i \in 1 .. Len(seat_calls[s]) :
        seat_calls[s][i] = (IF i % 2 = 1 THEN "new_seat" ELSE "remove_seat")

\* The observations of seat s were: gained pointer, lost it, gained it.
GainLoseGain(s) ==
    /\ Len(seat_obs[s]) = 3
    /\ Qualifies(seat_obs[s][1])
    /\ ~seat_obs[s][2].has_pointer
    /\ Qualifies(seat_obs[s][3])

GainLoseGainCalls ==
    \A s \in AllSeats :
        GainLoseGain(s) =>
            /\ seat_calls[s] = << "new_seat", "remove_seat", "new_seat" >>
            /\ Contains(seats, s)

\* C17: per seat the new_seat and remove_seat calls alternate, new_seat
\* first; a notification that does not change whether the seat qualifies
\* makes no Frame call and leaves the tracked seats alone; gain, lose, gain
\* gives two new_seat calls, one remove_seat call and a tracked seat.
C17_SeatCallsAlternate ==
    [][ /\ SeatCallsAlternate /\ SeatCallsAlternate'
        /\ GainLoseGainCalls /\ GainLoseGainCalls'
        /\ (op'.name = "seat_event"
              /\ Contains(seats, op'.seat) = Qualifies(op'.data))
           => /\ effects' = << >>
              /\ seats' = seats
              /\ seat_calls' = seat_calls ]_vars

\* Gain, lose, gain has just been completed by a notification.
C17_Witness ==
    /\ inner_some /\ op.name = "seat_event" /\ GainLoseGain(op.seat)
    /\ seat_calls[op.seat] = << "new_seat", "remove_seat", "new_seat" >>
    /\ Contains(seats, op.seat)
    /\ effects = << FrameCall("new_seat", op.seat) >>

\* The size negotiation state and the decorated flag.
negotiation == << min_size, max_size, current_size, old_size, decorated >>

\* C18: on an initialised window a FrameRequest with serial n has exactly
\* one effect, the ShellSurface request of its kind with that serial or the
\* application event Close / Refresh, and changes none of min_size,
\* max_size, current_size, old_size, decorated.
C18_FrameRequestOneEffect ==
    [][ (op'.name = "FrameRequest" /\ inner_some)
        => LET r == op'.req
               n == op'.serial
               e == effects'[1]
           IN  /\ Len(effects') = 1
               /\ r.type = "Minimize" =>
                     e = [kind |-> "request", name |-> "set_minimized", arg |-> << << >> >>]
               /\ r.type = "Maximize" =>
                     e = [kind |-> "request", name |-> "set_maximized", arg |-> << << >> >>]
               /\ r.type = "UnMaximize" =>
                     e = [kind |-> "request", name |-> "unset_maximized", arg |-> << << >> >>]
               /\ r.type = "Move" =>
                     e = [kind |-> "request", name |-> "move_", arg |-> << << r.seat, n >> >>]
               /\ r.type = "Resize" =>
                     e = [kind |-> "request", name |-> "resize",
                          arg |-> << << r.seat, n, r.edges >> >>]
               /\ r.type = "ShowMenu" =>
                     e = [kind |-> "request", name |-> "show_window_menu",
                          arg |-> << << r.seat, n, r.x, r.y >> >>]
               /\ r.type = "Close" =>
                     e = [kind |-> "event", name |-> "Close", arg |-> << [type |-> "Close"] >>]
               /\ r.type = "Refresh" =>
                     e = [kind |-> "event", name |-> "Refresh",
                          arg |-> << [type |-> "Refresh"] >>]
               /\ negotiation' = negotiation ]_vars

\* A Resize request with the latest serial went to the ShellSurface of a
\* window that had been resized.
C18_Witness ==
    /\ inner_some /\ op.name = "FrameRequest" /\ op.req.type = "Resize"
    /\ op.serial = MaxSerial
    /\ effects = << Request("resize", << op.req.seat, MaxSerial, op.req.edges >>) >>
    /\ current_size = << MaxDim, MaxDim >>

\* C19: a FrameRequest, Configure or Close that arrives before the
\* WindowInner is installed does nothing: no request, no Frame call, no
\* application event, no change of state.
C19_DroppedWhileConstructing ==
    [][ (~constructed /\ op'.name \in {"FrameRequest", "Configure", "Close"})
        => /\ effects' = << >>
           /\ UNCHANGED << inner_some, constructed, negotiation, frame,
                           decoration_mgr, decoration, panicked, seat_vars >> ]_vars

\* A Configure with a size arrived during construction.
C19_Witness ==
    /\ ~constructed /\ ~inner_some
    /\ op.name = "Configure" /\ IsSome(op.new_size) /\ op.need_refresh
    /\ effects = << >>

\* C20: a Close event on an initialised window gives the application
\* Event::Close exactly once and changes neither the negotiation state nor
\* the Frame nor the tracked seats.
C20_CloseDeliveredOnce ==
    [][ (op'.name = "Close" /\ inner_some)
        => /\ effects' = << [kind |-> "event", name |-> "Close",
                              arg |-> << [type |-> "Close"] >>] >>
           /\ UNCHANGED << negotiation, frame, seats >> ]_vars

\* Close on a window that tracks a seat and was resized.
C20_Witness ==
    /\ inner_some /\ op.name = "Close"
    /\ Len(Delivered) = 1 /\ LastDelivered.type = "Close"
    /\ seats # << >> /\ current_size = << MaxDim, MaxDim >>

\* C21: after the Window was dropped a Configure, Close, decoration-mode
\* event or FrameRequest does nothing: no application event, no request, no
\* Frame call, Frame unchanged.
C21_NoEffectAfterDrop ==
    [][ (constructed /\ ~inner_some
            /\ op'.name \in {"Configure", "Close", "decoration_event", "FrameRequest"})
        => /\ effects' = << >>
           /\ frame' = frame ]_vars

\* C22: resize(w, h) stores (max(w,1), max(h,1)) in current_size, calls
\* Frame::resize once with it and sends one set_geometry with
\* Frame::location() and Frame::add_borders of it; min_size, max_size,
\* old_size and decorated stay.
C22_ResizeClampsAndForwards ==
    [][ op'.name = "resize"
        => LET w == IF op'.arg[1] >= 1 THEN op'.arg[1] ELSE 1
               h == IF op'.arg[2] >= 1 THEN op'.arg[2] ELSE 1
           IN  /\ current_size' = << w, h >>
               /\ Len(effects') = 2
               /\ effects'[1] = [kind |-> "frame", name |-> "resize",
                                 arg |-> << << w, h >> >>]
               /\ effects'[2] = [kind |-> "request", name |-> "set_geometry",
                                 arg |-> << << location(frame'),
                                               add_borders(frame', AsI32(w), AsI32(h)) >> >>]
               /\ UNCHANGED << min_size, max_size, old_size, decorated >> ]_vars

\* resize(0, 0) on a bordered window while a size is stashed.
C22_Witness ==
    /\ inner_some /\ op.name = "resize" /\ op.arg = << 0, 0 >>
    /\ current_size = << 1, 1 >>
    /\ frame.border # << 0, 0 >> /\ IsSome(old_size)

\* Frame::add_borders of a (u32, u32) size.
Bordered(f, size) == add_borders(f, AsI32(size[1]), AsI32(size[2]))

\* C23: set_resizable(false) sends min and max both equal to
\* add_borders(current_size); set_resizable(true) sends add_borders(min_size)
\* and max_size through add_borders, or no max if none is set; neither
\* changes the stored min_size and max_size.
C23_ResizableLocksAndRestores ==
    [][ op'.name = "set_resizable"
        => /\ SelectSeq(effects', IsRequest) =
                 IF op'.arg
                 THEN << [kind |-> "request", name |-> "set_min_size",
                          arg |-> << << Bordered(frame, min_size) >> >>],
                         [kind |-> "request", name |-> "set_max_size",
                          arg |-> << IF max_size = << >> THEN << >>
                                     ELSE << Bordered(frame, max_size[1]) >> >>] >>
                 ELSE << [kind |-> "request", name |-> "set_min_size",
                          arg |-> << << Bordered(frame, current_size) >> >>],
                         [kind |-> "request", name |-> "set_max_size",
                          arg |-> << << Bordered(frame, current_size) >> >>] >>
           /\ UNCHANGED << min_size, max_size >> ]_vars

\* Resizability was re-enabled on a bordered window whose bounds both differ
\* from its current size.
C23_Witness ==
    /\ inner_some /\ op.name = "set_resizable" /\ op.arg
    /\ IsSome(max_size) /\ Unwrap(max_size) # current_size
    /\ min_size # current_size /\ min_size # MIN_WINDOW_SIZE
    /\ frame.border # << 0, 0 >>
    /\ Requests[2].arg = << Some(Bordered(frame, Unwrap(max_size))) >>

\* C24: set_min_size(Some(s)) stores s and sends add_borders(s);
\* set_min_size(None) stores (2,1) and sends add_borders((2,1));
\* set_max_size(Some(s)) stores s and sends add_borders(s); set_max_size(None)
\* clears max_size and sends no max size.  A new window has min_size (2,1)
\* and no max_size.
C24_BoundsStoredAndSent ==
    [][ /\ op.name = "create_window" => (min_size = << 2, 1 >> /\ max_size = << >>)
        /\ op'.name = "set_min_size"
           => LET s == IF op'.arg = << >> THEN << 2, 1 >> ELSE op'.arg[1]
              IN  /\ min_size' = s
                  /\ effects' = << [kind |-> "request", name |-> "set_min_size",
                                    arg |-> << << Bordered(frame, s) >> >>] >>
                  /\ max_size' = max_size
        /\ op'.name = "set_max_size"
           => /\ max_size' = op'.arg
              /\ effects' = << [kind |-> "request", name |-> "set_max_size",
                                arg |-> << IF op'.arg = << >> THEN << >>
                                           ELSE << Bordered(frame, op'.arg[1]) >> >>] >>
              /\ min_size' = min_size ]_vars

\* The minimum was put back to the default on a bordered window that has a
\* maximum.
C24_Witness ==
    /\ inner_some /\ op.name = "set_min_size" /\ op.arg = << >>
    /\ min_size = << 2, 1 >> /\ IsSome(max_size)
    /\ frame.border # << 0, 0 >>
    /\ effects = << Request("set_min_size", Some(Bordered(frame, << 2, 1 >>))) >>

\* p is a prefix of the string t that ends between two characters.
IsCharPrefix(p, t) ==
    /\ Len(p) <= Len(t)
    /\ p = SubSeq(t, 1, Len(p))
    /\ Len(p) < Len(t) => t[Len(p) + 1] # 0

\* C25: set_title(text) hands the same string to the Frame and to the
\* ShellSurface: text itself if it has at most the limit of bytes, else its
\* longest prefix of at most that many bytes that ends on a character
\* boundary.
C25_TitleTruncated ==
    op.name = "set_title" =>
        /\ Len(effects) = 2
        /\ effects[1].kind = "frame" /\ effects[1].name = "set_title"
        /\ effects[2].kind = "request" /\ effects[2].name = "set_title"
        /\ effects[1].arg = effects[2].arg
        /\ LET t == effects[1].arg[1]
               text == op.arg
           IN  IF Len(text) <= MaxTitleBytes THEN t = text
               ELSE /\ IsCharPrefix(t, text) /\ Len(t) <= MaxTitleBytes
                    /\ \A n \in Len(t) + 1 .. MaxTitleBytes :
                          ~IsCharPrefix(SubSeq(text, 1, n), text)

\* A title whose byte at the limit is inside a character was cut before
\* that character.
C25_Witness ==
    /\ op.name = "set_title" /\ Len(op.arg) > MaxTitleBytes
    /\ op.arg[MaxTitleBytes + 1] = 0
    /\ Len(effects[2].arg[1]) < MaxTitleBytes
    /\ Len(effects[2].arg[1]) > 0

\* C26: when F::init fails, create_window ends with that error and nothing
\* has happened: no request, no decoration object, no seat listener, no
\* WindowInner; and nothing can follow but a new call of create_window, so
\* the application callback is never invoked.
C26_FailedInitNoEffect ==
    [][ /\ (op'.name = "Frame::init" /\ op'.result = "Err")
           => /\ effects' = << >>
              /\ frame' = NoFrame
              /\ ~inner_some' /\ ~constructed' /\ ~decoration'
              /\ seats' = << >>
        /\ (op.name = "Frame::init" /\ op.result = "Err")
           => op'.name = "Frame::init" ]_vars

\* F::init has failed in an environment with decoration manager.
C26_Witness ==
    /\ op.name = "Frame::init" /\ op.result = "Err"
    /\ frame = NoFrame /\ decoration_mgr /\ ~decoration /\ effects = << >>

\* C27: set_maximized, unset_maximized, set_minimized, set_fullscreen,
\* unset_fullscreen, set_app_id and start_interactive_move each make exactly
\* the one ShellSurface request of their name (move_ for the last) and leave
\* the negotiation state and the Frame as they are.
C27_ForwardOnly ==
    [][ (op'.name \in {"set_maximized", "unset_maximized", "set_minimized",
                       "set_fullscreen", "unset_fullscreen", "set_app_id",
                       "start_interactive_move"})
        => LET c == op'.call
               e == effects'[1]
           IN  /\ Len(effects') = 1 /\ e.kind = "request"
               /\ e.name = (IF c.name = "start_interactive_move" THEN "move_" ELSE c.name)
               /\ c.name = "start_interactive_move" => e.arg = << << c.seat, c.serial >> >>
               /\ c.name = "set_fullscreen" => e.arg = << c.output >>
               /\ c.name = "set_app_id" => e.arg = << c.app_id >>
               /\ negotiation' = negotiation
               /\ frame' = frame ]_vars

\* set_fullscreen on an output: the window is not fullscreen before the
\* server has answered.
C27_Witness ==
    /\ inner_some /\ op.name = "set_fullscreen" /\ IsSome(op.call.output)
    /\ effects = << Request("set_fullscreen", op.call.output) >>
    /\ old_size = None /\ current_size = << MaxDim, MaxDim >>

\* The window has its default bounds and no stashed size.
DefaultBounds == min_size = << 2, 1 >> /\ max_size = << >> /\ old_size = << >>
\* The step is the Configure of the scenario on an initialised window.
ScenarioConfigure ==
    /\ inner_some /\ DefaultBounds
    /\ op'.name = "Configure" /\ op'.states = {} /\ op'.new_size = << ScenarioSize >>
\* resize(800, 600) calls Frame::resize((800,600)) once; refresh calls
\* Frame::redraw once and nothing else.
ScenarioResizeRefresh ==
    /\ (op'.name = "resize" /\ op'.arg = ScenarioSize)
       => /\ Len(SelectSeq(effects', LAMBDA e : e.kind = "frame")) = 1
          /\ effects'[1] = [kind |-> "frame", name |-> "resize",
                            arg |-> << ScenarioSize >>]
    /\ op'.name = "refresh"
       => effects' = << [kind |-> "frame", name |-> "redraw", arg |-> << << >> >>] >>

\* C28 (as stated): the Configure with states [] and size 800x600 on a new
\* window delivers Event::Configure with that size and states []; resize and
\* refresh call Frame::resize and Frame::redraw once each, refresh asks
\* nothing of the server.
C28_Scenario_Original ==
    [][ /\ ScenarioConfigure
           => LET ev == effects'[Len(effects')].arg[1]
              IN  ev = [type |-> "Configure", new_size |-> << ScenarioSize >>,
                        states |-> {}]
        /\ ScenarioResizeRefresh ]_vars

\* C28 (amended): the delivered size is the suggested one minus the borders
\* of the Frame (none while it is hidden), not below the floor (2,1).
C28_Scenario ==
    [][ /\ ScenarioConfigure
           => LET ev == effects'[Len(effects')].arg[1]
                  b == IF frame.hidden THEN << 0, 0 >> ELSE frame.border
                  w == ScenarioSize[1] - b[1]
                  h == ScenarioSize[2] - b[2]
              IN  ev = [type |-> "Configure",
                        new_size |-> << << IF w >= 2 THEN w ELSE 2,
                                           IF h >= 1 THEN h ELSE 1 >> >>,
                        states |-> {}]
        /\ ScenarioResizeRefresh ]_vars

\* The scenario's Configure on a window whose Frame shows borders.
C28_Witness ==
    /\ inner_some /\ DefaultBounds /\ op.name = "Configure" /\ op.states = {}
    /\ op.new_size = << ScenarioSize >>
    /\ ~frame.hidden /\ frame.border # << 0, 0 >>
    /\ IsSome(LastDelivered.new_size)
    /\ LastDelivered.new_size # << ScenarioSize >>

\* C29: a Configure event that is processed right after the same Configure
\* event leaves min_size, max_size, current_size, old_size and decorated as
\* the first processing left them.
C29_ConfigureIdempotent ==
    [][ (inner_some /\ op.name = "Configure" /\ op'.name = "Configure"
            /\ op'.states = op.states /\ op'.new_size = op.new_size)
        => negotiation' = negotiation ]_vars

\* The second of two constrained Configures in a row, with a size stashed
\* that differs from the current one.
C29_Witness ==
    /\ ConfigureHandled /\ should_stash_size(op.states) /\ run_len >= 2
    /\ IsSome(old_size) /\ old_size # Some(current_size)

\* The versions every requester of the latest Global event accepts.
CommonVersions ==
    { v \in 0 .. MaxVersion + 1 :
        \A i \in 1 .. Len(op.ranges) : op.ranges[i].start <= v /\ v < op.ranges[i].end }
IsBind(e) == e.kind = "request" /\ e.name = "bind"

\* C30: the version the registry handler binds lies in the version range of
\* every requester, and nothing is bound when the ranges have no version in
\* common.
C30_BoundVersionInEveryRange ==
    op.name = "Global" =>
        \A i \in 1 .. Len(effects) :
            IsBind(effects[i]) => effects[i].arg[1] \in CommonVersions

\* C31: once the container has received its global through new_global(name,
\* g), remove_global(name) makes destroyed() true and get() None, and
\* remove_global with another name changes nothing.
C31_RemoveGlobalByName ==
    [][ (op'.name = "remove_global" /\ IsSome(received))
        => IF op'.arg[1] = Unwrap(received).name
           THEN destroyed(no_event_global') /\ get(no_event_global') = None
           ELSE no_event_global' = no_event_global ]_vars

\* C32: whenever old_size is Some, the surface is in a run of constrained
\* Configure events and old_size is the value current_size had before the
\* first Configure of that run, whatever resize calls and earlier bursts
\* there were.
C32_OldSizeIsPreConstraint ==
    (inner_some /\ IsSome(old_size))
    => (last_constrained /\ run_len >= 1 /\ old_size = pre_run_size)

\* A stash that outlived a resize and a further constrained Configure.
C32_Witness ==
    /\ ConfigureHandled /\ should_stash_size(op.states)
    /\ IsSome(old_size) /\ run_len >= 2
    /\ old_size # Some(current_size)

\* C33: a handled Configure without constrained state leaves old_size empty,
\* whether it carried a size (the stash is dropped) or not (the stash is
\* taken); a Configure without constrained state and without size that
\* directly follows such a Configure delivers new_size = None.
C33_RestoreAtMostOnce ==
    [][ (inner_some' /\ op'.name = "Configure" /\ ~should_stash_size(op'.states))
        => /\ old_size' = None
           /\ (ConfigureHandled /\ ~should_stash_size(op.states)
                  /\ op'.new_size = None)
              => LastDelivered'.new_size = None ]_vars

\* A run of constrained Configures was ended by a Configure with an explicit
\* size: the stash is gone and the size delivered is not the stashed one.
C33_Witness ==
    /\ ConfigureHandled /\ ~should_stash_size(op.states) /\ IsSome(op.new_size)
    /\ run_len >= 1 /\ IsSome(pre_run_size)
    /\ old_size = None
    /\ LastDelivered.new_size # pre_run_size

\* C34: a Configure event leaves current_size, min_size, max_size and
\* decorated as they are, makes no Frame::resize call and sends no request to
\* the ShellSurface; on a live window current_size changes in resize only.
C34_ConfigureOnlyReports ==
    [][ /\ op'.name = "Configure"
           => /\ UNCHANGED << current_size, min_size, max_size, decorated >>
              /\ Requests' = << >>
              /\ \A i \in 1 .. Len(effects') :
                    ~(effects'[i].kind = "frame" /\ effects'[i].name = "resize")
        /\ (inner_some /\ inner_some' /\ current_size' # current_size)
           => op'.name = "resize" ]_vars

\* A Configure reported a size other than the current one to the application
\* of a window that had been resized.
C34_Witness ==
    /\ ConfigureHandled /\ IsSome(op.new_size)
    /\ IsSome(LastDelivered.new_size)
    /\ LastDelivered.new_size # Some(current_size)
    /\ current_size = << MaxDim, MaxDim >>

\* C35: the new_size = Some(s) of every delivered Event::Configure lies
\* between min_size and, when set, max_size, componentwise, with the bounds
\* the window has when the event is delivered; restored sizes included.
C35_DeliveredWithinBounds ==
    (ConfigureHandled /\ IsSome(LastDelivered.new_size))
    => /\ Le(min_size, Unwrap(LastDelivered.new_size))
       /\ IsSome(max_size) => Le(Unwrap(LastDelivered.new_size), Unwrap(max_size))

\* C36: the new_size of every delivered Event::Configure is None or a size
\* with width >= 1 and height >= 1, whether clamped or restored.
C36_DeliveredPositive ==
    (ConfigureHandled /\ IsSome(LastDelivered.new_size))
    => Le(<< 1, 1 >>, Unwrap(LastDelivered.new_size))

\* C37: set_decorate(None) hides the Frame, and the Frame stays hidden through
\* every decoration-mode event, Configure event and drop that follows, until
\* set_decorate is called again.
C37_HiddenAfterDecorateNone ==
    [][ /\ (op'.name = "set_decorate" /\ op'.arg = "None")
           => (frame'.hidden /\ ~decorated')
        /\ (~decorated /\ frame.hidden /\ op'.name # "set_decorate")
           => (frame'.hidden /\ ~decorated') ]_vars

\* A ClientSide mode event reached a window that had asked for no
\* decorations, and its Frame is still hidden.
C37_Witness ==
    /\ op.name = "decoration_event" /\ op.arg = "ClientSide"
    /\ inner_some /\ ~decorated /\ decoration /\ frame.hidden

\* The argument of the last request called name among effs.
LastSent(name, effs) ==
    LET idx == { i \in 1 .. Len(effs) : IsRequest(effs[i]) /\ effs[i].name = name }
    IN  effs[CHOOSE i \in idx : \A j \in idx : j <= i].arg[1]
\* The bound of a window locked at the content size cur.
LockedBound(f, cur) == Some(add_borders(f, AsI32(cur[1]), AsI32(cur[2])))

\* C38: while the window is non-resizable the min size and the max size last
\* sent to the ShellSurface both equal add_borders(current_size); stated for
\* the resize, set_min_size or set_max_size call that directly follows
\* set_resizable(false), whose two requests are then the last ones sent.
C38_LockedBoundsFollowSize ==
    [][ (inner_some /\ op.name = "set_resizable" /\ op.arg = FALSE
            /\ op'.name \in {"resize", "set_min_size", "set_max_size"})
        => /\ LastSent("set_min_size", effects \o effects')
                = LockedBound(frame', current_size')
           /\ LastSent("set_max_size", effects \o effects')
                = LockedBound(frame', current_size') ]_vars

\* The outputs the surface is on.
OnOutputs(d) == { d.outputs[i] : i \in 1 .. Len(d.outputs) }
SetMax(S) == CHOOSE m \in S : \A x \in S : x <= m

\* C39: after an Enter or Leave event the surface is on the outputs it was on
\* plus or minus the event's output; if that is at least one output, the
\* stored scale factor is the largest of their scale factors, and if the
\* Leave removed the only output the stored factor is unchanged;
\* scale_factor_changed is called, once and with the new factor, exactly when
\* the event changed the stored factor.
C39_ScaleFactorIsLargest ==
    [][ op'.name = "wl_surface"
        => LET on == OnOutputs(surface_data')
               factors == { op'.scale_of[o] : o \in on }
           IN  /\ on = IF op'.event = "Enter"
                       THEN OnOutputs(surface_data) \cup {op'.output}
                       ELSE OnOutputs(surface_data) \ {op'.output}
               /\ on # {} => surface_data'.scale_factor = SetMax(factors)
               /\ on = {} => surface_data'.scale_factor = surface_data.scale_factor
               /\ effects' =
                    IF surface_data'.scale_factor # surface_data.scale_factor
                    THEN << [kind |-> "call", name |-> "scale_factor_changed",
                             arg |-> << surface_data'.scale_factor >>] >>
                    ELSE << >> ]_vars

\* A Leave left the surface on an output of a smaller scale factor, and the
\* handler was told the new factor.
C39_Witness ==
    /\ op.name = "wl_surface" /\ op.event = "Leave"
    /\ surface_data.outputs # << >>
    /\ surface_data.scale_factor < op.scale_of[op.output]
    /\ effects = << [kind |-> "call", name |-> "scale_factor_changed",
                     arg |-> << surface_data.scale_factor >>] >>

\* The call log of the current run of process_events.
IsCall(e, name, results) == e.name = name /\ e.arg[1] \in results
IsLast(i) == i = Len(effects)

\* C40: in a run of process_events every dispatch that reports events is
\* followed by another turn (read, then dispatch) and never by a flush; the
\* one flush comes directly after the dispatch that reported 0 and is the
\* last call; Continue is returned only after that flush; a read error other
\* than WouldBlock and a dispatch error end the run with that error, without
\* flush; WouldBlock on read or flush is no error.
C40_ProcessEvents ==
    op.name = "process_events" =>
        /\ \A i \in 1 .. Len(effects) :
            /\ IsCall(effects[i], "read_events", {"Ok", "WouldBlock"})
               => IF IsLast(i) THEN source.pc = "dispatch" /\ source.ret = "none"
                  ELSE IsDispatch(effects[i + 1])
            /\ IsCall(effects[i], "read_events", {"Other"})
               => IsLast(i) /\ source = [pc |-> "idle", ret |-> "Err"]
            /\ IsCall(effects[i], "dispatch_pending", {"OkN"})
               => IF IsLast(i)
                  THEN source.pc \in {"read", "dispatch"} /\ source.ret = "none"
                  ELSE effects[i + 1].name \in {"read_events", "dispatch_pending"}
            /\ IsCall(effects[i], "dispatch_pending", {"Ok0"})
               => IF IsLast(i) THEN source.pc = "flush" /\ source.ret = "none"
                  ELSE effects[i + 1].name = "flush"
            /\ IsCall(effects[i], "dispatch_pending", {"Err"})
               => IsLast(i) /\ source = [pc |-> "idle", ret |-> "Err"]
            /\ IsCall(effects[i], "flush", {"Ok", "WouldBlock"})
               => IsLast(i) /\ source = [pc |-> "idle", ret |-> "Continue"]
            /\ effects[i].name = "flush"
               => IsLast(i) /\ i > 1 /\ IsCall(effects[i - 1], "dispatch_pending", {"Ok0"})
        /\ source.ret = "Continue"
           => effects # << >> /\ effects[Len(effects)].name = "flush"
        /\ source.pc = "flush"
           => effects # << >> /\ IsCall(effects[Len(effects)], "dispatch_pending", {"Ok0"})

\* A run of two turns in which the read and the flush would block returned
\* Continue.
C40_Witness ==
    /\ op.name = "process_events" /\ source = [pc |-> "idle", ret |-> "Continue"]
    /\ Rounds(effects) >= 2
    /\ \E i \in 1 .. Len(effects) : IsCall(effects[i], "read_events", {"WouldBlock"})
    /\ IsCall(effects[Len(effects)], "flush", {"WouldBlock"})

=============================================================================
